---- MODULE Spec2Model ----
(***************************************************************************)
(* A model of the mlang CPS interpreter (src/interpreter.py): the AST, the *)
(* Environment chain, FunctionValue.call, the continuation-passing visit_*  *)
(* rules, the trampoline and the Macro / WhileMacro rewriter.               *)
(*                                                                          *)
(* Python values are tagged records [type |-> ..., ...].  Python closures   *)
(* are defunctionalised: a thunk is a record naming the source line of the  *)
(* lambda that created it together with the variables it closes over, and a *)
(* continuation K is the sequence of the continuation lambdas composed so   *)
(* far, innermost first, ending in the identity `lambda v: v`.              *)
(***************************************************************************)
EXTENDS Integers, Sequences, FiniteSets, TLC

(***************************************************************************)
(* Bounds of the model.                                                     *)
(***************************************************************************)
\* largest integer used as loop limit / start value / countdown argument
MaxN == 3
\* number of direct Environment method calls made by the driver
MaxOps == 2
\* longest list given to the macro engines
MaxLen == 3

(***************************************************************************)
(* Python values.                                                           *)
(***************************************************************************)
None == [type |-> "NoneType"]
PyInt(n) == [type |-> "int", v |-> n]
PyBool(b) == [type |-> "bool", v |-> b]
PyFloat(n, d) == [type |-> "float", num |-> n, den |-> d]
PyStr(s) == [type |-> "str", s |-> s]
PyList(items) == [type |-> "list", items |-> items]

\* the strings of the model that start with "$" (str.startswith("$"))
DollarNames == {"$cond", "$body", "$left", "$right", "$op", "$var", "$value", "$xs"}
StartsWithDollar(v) == v.type = "str" /\ v.s \in DollarNames

(***************************************************************************)
(* AST classes (interpreter.py 1-43).                                       *)
(***************************************************************************)
LiteralNode(value) == [type |-> "LiteralNode", value |-> value]
VarNode(name) == [type |-> "VarNode", name |-> name]
AssignNode(name, value) == [type |-> "AssignNode", name |-> name, value |-> value]
BinaryOpNode(op, left, right) ==
    [type |-> "BinaryOpNode", op |-> op, left |-> left, right |-> right]
IfNode(cond, then_body, else_body) ==
    [type |-> "IfNode", cond |-> cond, then_body |-> then_body, else_body |-> else_body]
FunctionNode(name, params, body) ==
    [type |-> "FunctionNode", name |-> name, params |-> params, body |-> body]
FunctionCallNode(func, args) ==
    [type |-> "FunctionCallNode", func |-> func, args |-> args]
BlockNode(statements) == [type |-> "BlockNode", statements |-> statements]

NodeTypes == {"LiteralNode", "VarNode", "AssignNode", "BinaryOpNode", "IfNode",
              "FunctionNode", "FunctionCallNode", "BlockNode"}
IsNode(v) == v.type \in NodeTypes

\* node.__dict__ in insertion order, i.e. the order of the constructor's assignments
NodeAttrs(type) ==
    CASE type = "LiteralNode" -> <<"value">>
      [] type = "VarNode" -> <<"name">>
      [] type = "AssignNode" -> <<"name", "value">>
      [] type = "BinaryOpNode" -> <<"op", "left", "right">>
      [] type = "IfNode" -> <<"cond", "then_body", "else_body">>
      [] type = "FunctionNode" -> <<"name", "params", "body">>
      [] type = "FunctionCallNode" -> <<"func", "args">>
      [] type = "BlockNode" -> <<"statements">>

\* template.__class__(*values): the constructor applied to positional values
MakeNode(type, a) ==
    CASE type = "LiteralNode" -> LiteralNode(a[1])
      [] type = "VarNode" -> VarNode(a[1])
      [] type = "AssignNode" -> AssignNode(a[1], a[2])
      [] type = "BinaryOpNode" -> BinaryOpNode(a[1], a[2], a[3])
      [] type = "IfNode" -> IfNode(a[1], a[2], a[3])
      [] type = "FunctionNode" -> FunctionNode(a[1], a[2], a[3])
      [] type = "FunctionCallNode" -> FunctionCallNode(a[1], a[2])
      [] type = "BlockNode" -> BlockNode(a[1])

(***************************************************************************)
(* Environment (interpreter.py 47-70).  The heap of Environment objects is  *)
(* a sequence; an object is its index, parent 0 is None.                    *)
(***************************************************************************)
NewEnvironment(parent) == [vars |-> <<>>, parent |-> parent]

\* Environment.get that returns None for a name no scope binds (dict.get)
RECURSIVE Environment_get_default(_, _, _)
Environment_get_default(envs, env, name) ==
    IF env = 0 THEN [ok |-> TRUE, v |-> None]
    ELSE IF name \in DOMAIN envs[env].vars
         THEN [ok |-> TRUE, v |-> envs[env].vars[name]]
         ELSE Environment_get_default(envs, envs[env].parent, name)

RECURSIVE Environment_get(_, _, _)
Environment_get(envs, env, name) ==
    IF env = 0 THEN [ok |-> FALSE, v |-> None]
    ELSE IF name \in DOMAIN envs[env].vars
         THEN [ok |-> TRUE, v |-> envs[env].vars[name]]
         ELSE Environment_get(envs, envs[env].parent, name)

\* self.vars[name] = value on the Environment object env
StoreVar(envs, env, name, value) ==
    LET old == envs[env].vars
        new == [n \in (DOMAIN old) \cup {name} |-> IF n = name THEN value ELSE old[n]]
    IN [envs EXCEPT ![env].vars = new]

\* Environment.set written with the assignment policy: an existing binding on
\* the chain is overwritten where it is
Environment_set_shared(envs, env, name, value) ==
    LET RECURSIVE Holder(_)
        Holder(e) == IF e = 0 THEN env
                     ELSE IF name \in DOMAIN envs[e].vars THEN e
                     ELSE Holder(envs[e].parent)
    IN StoreVar(envs, Holder(env), name, value)

Environment_set(envs, env, name, value) == StoreVar(envs, env, name, value)

\* Environment.update without the walk to the parent
Environment_update_local(envs, env, name, value) ==
    IF name \in DOMAIN envs[env].vars
    THEN [ok |-> TRUE, envs |-> StoreVar(envs, env, name, value)]
    ELSE [ok |-> FALSE, envs |-> envs]

\* Environment.update that finds the name on the chain but stores it in self
Environment_update_shadow(envs, env, name, value) ==
    IF Environment_get(envs, env, name).ok
    THEN [ok |-> TRUE, envs |-> StoreVar(envs, env, name, value)]
    ELSE [ok |-> FALSE, envs |-> envs]

RECURSIVE Environment_update(_, _, _, _)
Environment_update(envs, env, name, value) ==
    IF name \in DOMAIN envs[env].vars
    THEN [ok |-> TRUE, envs |-> StoreVar(envs, env, name, value)]
    ELSE IF envs[env].parent # 0
         THEN Environment_update(envs, envs[env].parent, name, value)
         ELSE [ok |-> FALSE, envs |-> envs]

(***************************************************************************)
(* Python operators on the values of the model: truthiness, the numeric     *)
(* tower int/bool/float (a float is an unreduced fraction with a positive   *)
(* denominator), == and the comparison operators.                           *)
(***************************************************************************)
IsNum(v) == v.type \in {"int", "bool", "float"}
Num(v) == IF v.type = "int" THEN v.v ELSE IF v.type = "bool" THEN (IF v.v THEN 1 ELSE 0) ELSE v.num
Den(v) == IF v.type = "float" THEN v.den ELSE 1

\* bool(v), as used by `if cond:` and `elif node.else_body:`
Truthy(v) ==
    CASE v.type = "NoneType" -> FALSE
      [] IsNum(v) -> Num(v) # 0
      [] v.type = "str" -> v.s # ""
      [] v.type = "list" -> v.items # <<>>
      [] OTHER -> TRUE

\* the result of an arithmetic operator: int unless an operand is a float
NumResult(l, r, n, d) ==
    IF l.type = "float" \/ r.type = "float" THEN PyFloat(n, d) ELSE PyInt(n)

\* true division always produces a float
TrueDiv(l, r) ==
    LET n == Num(l) * Den(r)
        d == Den(l) * Num(r)
    IN IF d < 0 THEN PyFloat(0 - n, 0 - d) ELSE PyFloat(n, d)

\* left == right on the values the model compares: numbers by value, None by
\* identity, FunctionValue objects by identity (their id)
PyEq(l, r) ==
    IF IsNum(l) /\ IsNum(r) THEN Num(l) * Den(r) = Num(r) * Den(l)
    ELSE IF l.type # r.type THEN FALSE
    ELSE IF l.type = "FunctionValue" THEN l.id = r.id
    ELSE l.type = "NoneType"

SupportedOps == {"+", "-", "*", "/", "<", ">", "==", "!="}

evaluate_binary_op(op, left, right) ==
    IF op \notin SupportedOps
    THEN \* line 162 builds its message from `node`, which is not a name of this scope
         [err |-> "NameError", v |-> None]
    ELSE IF op \in {"==", "!="}
    THEN IF "function" \in {left.type, right.type}
         THEN [err |-> "Unmodelled", v |-> None]
         ELSE [err |-> "none",
               v |-> PyBool(IF op = "==" THEN PyEq(left, right) ELSE ~PyEq(left, right))]
    ELSE IF ~(IsNum(left) /\ IsNum(right))
    THEN [err |-> "TypeError", v |-> None]
    ELSE LET ln == Num(left)
             ld == Den(left)
             rn == Num(right)
             rd == Den(right)
         IN CASE op = "+" -> [err |-> "none", v |-> NumResult(left, right, ln * rd + rn * ld, ld * rd)]
              [] op = "-" -> [err |-> "none", v |-> NumResult(left, right, ln * rd - rn * ld, ld * rd)]
              [] op = "*" -> [err |-> "none", v |-> NumResult(left, right, ln * rn, ld * rd)]
              [] op = "/" -> IF rn = 0 THEN [err |-> "ZeroDivisionError", v |-> None]
                             ELSE [err |-> "none", v |-> TrueDiv(left, right)]
              [] op = "<" -> [err |-> "none", v |-> PyBool(ln * rd < rn * ld)]
              [] op = ">" -> [err |-> "none", v |-> PyBool(ln * rd > rn * ld)]

(***************************************************************************)
(* The evaluation context threaded through one trampoline step: the heap of *)
(* Environments, the exception raised (if any), and observations of the     *)
(* step: the events it produced, the number of FunctionValue objects and    *)
(* Block evaluations so far, and the deepest nesting of pending thunk and   *)
(* continuation invocations.                                                *)
(***************************************************************************)
Ctx(envs, nfun, nblk) ==
    [envs |-> envs, err |-> "none", ev |-> <<>>, nfun |-> nfun, nblk |-> nblk, depth |-> 1]

Raise(c, e) == [v |-> None, c |-> [c EXCEPT !.err = e]]
Emit(c, e) == [c EXCEPT !.ev = Append(@, e)]
AtDepth(c, d) == [c EXCEPT !.depth = IF d > @ THEN d ELSE @]

\* a FunctionValue that closes over the global environment, whatever the
\* environment of its definition
FunctionValue_global(node, closure_env, id) ==
    [type |-> "FunctionValue", node |-> node, closure_env |-> 1, id |-> id]

\* a FunctionValue object (interpreter.py 80-83)
FunctionValue(node, closure_env, id) ==
    [type |-> "FunctionValue", node |-> node, closure_env |-> closure_env, id |-> id]

\* a lambda created at source line src, closing over K, node, env and x
Thunk(src, K, node, env, x) ==
    [type |-> "function", src |-> src, K |-> K, node |-> node, env |-> env, x |-> x]

callable(v) == v.type = "function"

\* Interpreter.execute with visit_FunctionNode binding the name the way
\* visit_AssignNode does (update where the name is bound, else define)
Execute_defAssigns(K, node, env, c) ==
    IF ~IsNode(node) THEN Raise(c, "NotImplementedError")
    ELSE CASE node.type = "LiteralNode" -> [v |-> Thunk(128, K, node, env, None), c |-> c]
           [] node.type = "VarNode" -> [v |-> Thunk(131, K, node, env, None), c |-> c]
           [] node.type = "AssignNode" -> [v |-> Thunk(142, K, node, env, None), c |-> c]
           [] node.type = "BinaryOpNode" -> [v |-> Thunk(167, K, node, env, None), c |-> c]
           [] node.type = "IfNode" -> [v |-> Thunk(176, K, node, env, None), c |-> c]
           [] node.type = "FunctionNode" ->
                LET func == FunctionValue(node, env, c.nfun + 1)
                    u == Environment_update(c.envs, env, node.name.s, func)
                    c1 == [c EXCEPT !.envs = IF u.ok THEN u.envs
                                             ELSE Environment_set(c.envs, env, node.name.s, func),
                                    !.nfun = c.nfun + 1]
                IN [v |-> Thunk(181, K, node, env, func),
                    c |-> Emit(c1, [e |-> "def", env |-> env, name |-> node.name.s, func |-> func])]
           [] node.type = "FunctionCallNode" -> [v |-> Thunk(195, K, node, env, None), c |-> c]
           [] node.type = "BlockNode" -> [v |-> Thunk(205, K, node, env, None), c |-> c]

\* Interpreter.execute: dispatch to visit_<type>; every visit_* returns a lambda,
\* and visit_FunctionNode binds the name before it returns
Execute(K, node, env, c) ==
    IF ~IsNode(node) THEN Raise(c, "NotImplementedError")
    ELSE CASE node.type = "LiteralNode" -> [v |-> Thunk(128, K, node, env, None), c |-> c]
           [] node.type = "VarNode" -> [v |-> Thunk(131, K, node, env, None), c |-> c]
           [] node.type = "AssignNode" -> [v |-> Thunk(142, K, node, env, None), c |-> c]
           [] node.type = "BinaryOpNode" -> [v |-> Thunk(167, K, node, env, None), c |-> c]
           [] node.type = "IfNode" -> [v |-> Thunk(176, K, node, env, None), c |-> c]
           [] node.type = "FunctionNode" ->
                LET func == FunctionValue(node, env, c.nfun + 1)
                    c1 == [c EXCEPT !.envs = Environment_set(c.envs, env, node.name.s, func),
                                    !.nfun = c.nfun + 1]
                IN [v |-> Thunk(181, K, node, env, func),
                    c |-> Emit(c1, [e |-> "def", env |-> env, name |-> node.name.s, func |-> func])]
           [] node.type = "FunctionCallNode" -> [v |-> Thunk(195, K, node, env, None), c |-> c]
           [] node.type = "BlockNode" -> [v |-> Thunk(205, K, node, env, None), c |-> c]

\* the parameters bound to the arguments taken from the end of the list
RECURSIVE BindParams_reversed(_, _, _, _)
BindParams_reversed(envs, env, params, args) ==
    IF params = <<>> \/ args = <<>> THEN envs
    ELSE BindParams_reversed(Environment_set(envs, env, Head(params).s, args[Len(args)]),
                             env, Tail(params), SubSeq(args, 1, Len(args) - 1))

\* zip(params, args) followed by env.set(param, arg) for each pair
RECURSIVE BindParams(_, _, _, _)
BindParams(envs, env, params, args) ==
    IF params = <<>> \/ args = <<>> THEN envs
    ELSE BindParams(Environment_set(envs, env, Head(params).s, Head(args)),
                    env, Tail(params), Tail(args))

\* FunctionValue.call with the activation Environment created without its parent
FunctionValue_call_noParent(fv, args, c) ==
    LET env == Len(c.envs) + 1
        made == Append(c.envs, NewEnvironment(0))
        bound == BindParams(made, env, fv.node.params.items, args)
        c1 == Emit([c EXCEPT !.envs = bound],
                   [e |-> "call", func |-> fv.id, env |-> env, args |-> args])
    IN Execute(<<[k |-> 94, owner |-> env]>>, fv.node.body, env, c1)

\* FunctionValue.call: one new Environment, the parameters bound, then the body
\* handed to execute with the continuation `lambda v: v`.  execute returns the
\* lambda of the body's visit_* method and nothing in the interpreter raises
\* TailCall, so the `while True` loop returns in its first iteration.
FunctionValue_call(fv, args, c) ==
    LET env == Len(c.envs) + 1
        made == Append(c.envs, NewEnvironment(fv.closure_env))
        bound == BindParams(made, env, fv.node.params.items, args)
        c1 == Emit([c EXCEPT !.envs = bound],
                   [e |-> "call", func |-> fv.id, env |-> env, args |-> args])
    IN Execute(<<[k |-> 94, owner |-> env]>>, fv.node.body, env, c1)

\* cont of visit_AssignNode (134-141): update the nearest binding, or define the
\* name in env when update raises NameError; returns the value
AssignCont(envs, env, name, value) ==
    LET u == Environment_update(envs, env, name, value)
    IN [envs |-> IF u.ok THEN u.envs ELSE Environment_set(envs, env, name, value),
        ret |-> value]

\* loop of visit_BlockNode (199-204): the lambda for the rest of the statements.
\* b = [inst, n] identifies the Block evaluation in the recorded events.
Loop(K, stmts, res, env, b) ==
    IF stmts = <<>>
    THEN Thunk(201, K, None, env, [res |-> res, b |-> b])
    ELSE Thunk(204, K, None, env, [first |-> Head(stmts), rest |-> Tail(stmts), b |-> b])

\* K(v): the continuation K applied to v at nesting depth d of pending thunk and
\* continuation invocations.  Head(K) is the lambda being called, Tail(K) the
\* continuation it closes over.  EvalArgs is eval_args of visit_FunctionCallNode.
RECURSIVE ApplyK(_, _, _, _)
RECURSIVE EvalArgs(_, _, _, _, _, _, _, _)
\* eval_args with the test of the callee made before the arguments are evaluated
EvalArgs_checkFirst(K, node, env, func_value, args, acc, c, d) ==
    IF func_value.type # "FunctionValue" THEN Raise(c, "TypeError")
    ELSE IF args = <<>>
    THEN LET r == FunctionValue_call(func_value, acc, c)
         IN IF r.c.err # "none" THEN r ELSE ApplyK(K, r.v, r.c, d + 1)
    ELSE [v |-> Thunk(193, K, node, env,
                      [func_value |-> func_value, first |-> Head(args),
                       rest |-> Tail(args), acc |-> acc]),
          c |-> c]

EvalArgs(K, node, env, func_value, args, acc, c, d) ==
    IF args = <<>>
    THEN IF func_value.type # "FunctionValue" THEN Raise(c, "TypeError")
         ELSE LET r == FunctionValue_call(func_value, acc, c)
              IN IF r.c.err # "none" THEN r ELSE ApplyK(K, r.v, r.c, d + 1)
    ELSE [v |-> Thunk(193, K, node, env,
                      [func_value |-> func_value, first |-> Head(args),
                       rest |-> Tail(args), acc |-> acc]),
          c |-> c]

ApplyK(K, v, c0, d) ==
    LET f == Head(K)
        R == Tail(K)
        c == Emit(AtDepth(c0, d), [e |-> "K", frame |-> f, v |-> v])
    IN CASE f.k \in {94, 115} -> \* lambda v: v
              [v |-> v, c |-> c]
         [] f.k = 142 -> \* lambda v: K(cont(v))
              LET a == AssignCont(c.envs, f.env, f.node.name.s, v)
                  c1 == Emit([c EXCEPT !.envs = a.envs],
                             [e |-> "assign", env |-> f.env, name |-> f.node.name.s,
                              value |-> v, ret |-> a.ret,
                              before |-> c.envs, after |-> a.envs])
              IN ApplyK(R, a.ret, c1, d + 1)
         [] f.k = 165 -> \* cont1(left)
              [v |-> Thunk(166, R, f.node, f.env, v), c |-> c]
         [] f.k = 166 -> \* lambda right: K(self.__evaluate_binary_op(node.op, left, right))
              LET r == evaluate_binary_op(f.node.op.s, f.left, v)
              IN IF r.err # "none" THEN Raise(c, r.err) ELSE ApplyK(R, r.v, c, d + 1)
         [] f.k = 170 -> \* cont(cond) of visit_IfNode
              IF Truthy(v)
              THEN LET t == Thunk(172, R, f.node, f.env, None)
                   IN [v |-> t, c |-> Emit(c, [e |-> "if", branch |-> "then", K |-> R, ret |-> t])]
              ELSE IF Truthy(f.node.else_body)
              THEN LET t == Thunk(174, R, f.node, f.env, None)
                   IN [v |-> t, c |-> Emit(c, [e |-> "if", branch |-> "else", K |-> R, ret |-> t])]
              ELSE [v |-> None,
                    c |-> Emit(c, [e |-> "if", branch |-> "none", K |-> R, ret |-> None])]
         [] f.k = 184 -> \* after_func(func_value)
              [v |-> Thunk(194, R, f.node, f.env, v), c |-> c]
         [] f.k = 192 -> \* c = lambda arg_value: eval_args(rest, acc + [arg_value])
              EvalArgs(R, f.node, f.env, f.func_value, f.rest, Append(f.acc, v), c, d)
         [] f.k = 204 -> \* lambda v: loop(rest, v)
              [v |-> Loop(R, f.rest, v, f.env, f.b), c |-> c]

\* thunk(): one call of the lambda held by the trampoline
Invoke(th, c) ==
    LET K == th.K
        node == th.node
        env == th.env
    IN CASE th.src = 128 -> \* lambda: K(node.value)
              ApplyK(K, node.value, c, 2)
         [] th.src = 131 -> \* lambda: K(env.get(node.name))
              LET g == Environment_get(c.envs, env, node.name.s)
              IN IF g.ok THEN ApplyK(K, g.v, c, 2) ELSE Raise(c, "NameError")
         [] th.src = 142 -> \* lambda: self.execute(lambda v: K(cont(v)), node.value, env)
              Execute(<<[k |-> 142, node |-> node, env |-> env]>> \o K, node.value, env, c)
         [] th.src = 166 -> \* lambda: self.execute(lambda right: ..., node.right, env)
              Execute(<<[k |-> 166, node |-> node, left |-> th.x]>> \o K, node.right, env, c)
         [] th.src = 167 -> \* lambda: self.execute(cont1, node.left, env)
              Execute(<<[k |-> 165, node |-> node, env |-> env]>> \o K, node.left, env, c)
         [] th.src = 172 -> \* lambda: self.execute(K, node.then_body, env)
              Execute(K, node.then_body, env, c)
         [] th.src = 174 -> \* lambda: self.execute(K, node.else_body, env)
              Execute(K, node.else_body, env, c)
         [] th.src = 176 -> \* lambda: self.execute(cont, node.cond, env)
              Execute(<<[k |-> 170, node |-> node, env |-> env]>> \o K, node.cond, env, c)
         [] th.src = 181 -> \* lambda: K(func)
              ApplyK(K, th.x, c, 2)
         [] th.src = 193 -> \* lambda: self.execute(c, first, env)
              Execute(<<[k |-> 192, node |-> node, env |-> env, func_value |-> th.x.func_value,
                         rest |-> th.x.rest, acc |-> th.x.acc]>> \o K, th.x.first, env, c)
         [] th.src = 194 -> \* lambda: eval_args(node.args, [])
              EvalArgs(K, node, env, th.x, node.args.items, <<>>, c, 1)
         [] th.src = 195 -> \* lambda: self.execute(after_func, node.func, env)
              Execute(<<[k |-> 184, node |-> node, env |-> env]>> \o K, node.func, env, c)
         [] th.src = 201 -> \* lambda: K(res)
              ApplyK(K, th.x.res, Emit(c, [e |-> "blockK", b |-> th.x.b, v |-> th.x.res]), 2)
         [] th.src = 204 -> \* lambda: self.execute(lambda v: loop(rest, v), first, env)
              Execute(<<[k |-> 204, rest |-> th.x.rest, env |-> env, b |-> th.x.b]>> \o K,
                      th.x.first, env,
                      Emit(c, [e |-> "stmt", b |-> th.x.b,
                               idx |-> th.x.b.n - Len(th.x.rest)]))
         [] th.src = 205 -> \* lambda: loop(node.statements, None)
              LET b == [inst |-> c.nblk + 1, n |-> Len(node.statements.items)]
              IN [v |-> Loop(K, node.statements.items, None, env, b),
                  c |-> Emit([c EXCEPT !.nblk = c.nblk + 1], [e |-> "block", b |-> b])]

(***************************************************************************)
(* Macro and WhileMacro (interpreter.py 209-257).                           *)
(***************************************************************************)
\* a != b on attribute values.  Node defines no __eq__, so two Node objects are
\* unequal unless they are the same object; a pattern and the node it is matched
\* against are built separately and share no Node object.
RECURSIVE PyNe(_, _)
PyNe(a, b) ==
    IF IsNum(a) /\ IsNum(b) THEN Num(a) * Den(b) # Num(b) * Den(a)
    ELSE IF a.type # b.type THEN TRUE
    ELSE CASE a.type = "NoneType" -> FALSE
           [] a.type = "str" -> a.s # b.s
           [] a.type = "list" ->
                \/ Len(a.items) # Len(b.items)
                \/ \E i \in 1..Len(a.items) : PyNe(a.items[i], b.items[i])
           [] OTHER -> TRUE

NoMatch == [ok |-> FALSE, b |-> <<>>]

\* the loop of Macro.match over from_pattern.__dict__.items(), from attribute i on
RECURSIVE MatchAttrs(_, _, _, _)
MatchAttrs(pattern, node, i, bindings) ==
    LET attrs == NodeAttrs(pattern.type)
    IN IF i > Len(attrs) THEN [ok |-> TRUE, b |-> bindings]
       ELSE LET value == pattern[attrs[i]]
            IN IF StartsWithDollar(value)
               THEN MatchAttrs(pattern, node, i + 1,
                               [k \in (DOMAIN bindings) \cup {value.s} |->
                                   IF k = value.s THEN node[attrs[i]] ELSE bindings[k]])
               ELSE IF PyNe(node[attrs[i]], value) THEN NoMatch
               ELSE MatchAttrs(pattern, node, i + 1, bindings)

\* Macro.match: isinstance(self.from_pattern, type(node)), then the attribute loop
Macro_match(from_pattern, node) ==
    IF IsNode(node) /\ from_pattern.type = node.type
    THEN MatchAttrs(from_pattern, node, 1, <<>>)
    ELSE NoMatch

\* Macro.instantiate_template without the case for lists: a list in the
\* template is returned as it is
RECURSIVE Macro_instantiate_template_noList(_, _)
Macro_instantiate_template_noList(template, bindings) ==
    IF StartsWithDollar(template)
    THEN IF template.s \in DOMAIN bindings THEN bindings[template.s] ELSE None
    ELSE IF IsNode(template)
    THEN LET attrs == NodeAttrs(template.type)
         IN MakeNode(template.type,
                     [i \in 1..Len(attrs) |->
                         Macro_instantiate_template_noList(template[attrs[i]], bindings)])
    ELSE template

RECURSIVE Macro_instantiate_template(_, _)
Macro_instantiate_template(template, bindings) ==
    IF StartsWithDollar(template)
    THEN IF template.s \in DOMAIN bindings THEN bindings[template.s] ELSE None
    ELSE IF template.type = "list"
    THEN PyList([i \in 1..Len(template.items) |->
                    Macro_instantiate_template(template.items[i], bindings)])
    ELSE IF IsNode(template)
    THEN LET attrs == NodeAttrs(template.type)
         IN MakeNode(template.type,
                     [i \in 1..Len(attrs) |->
                         Macro_instantiate_template(template[attrs[i]], bindings)])
    ELSE template

Macro_apply(from_pattern, to_template, node) ==
    LET m == Macro_match(from_pattern, node)
    IN IF ~m.ok THEN node ELSE Macro_instantiate_template(to_template, m.b)

WhileMacro_from_pattern == IfNode(PyStr("$cond"), PyStr("$body"), None)

WhileMacro_to_template ==
    BlockNode(PyList(<<
        FunctionNode(PyStr("loop"), PyList(<<>>),
            IfNode(PyStr("$cond"),
                   BlockNode(PyList(<<PyStr("$body"),
                                      FunctionCallNode(VarNode(PyStr("loop")), PyList(<<>>))>>)),
                   None)),
        FunctionCallNode(VarNode(PyStr("loop")), PyList(<<>>))>>))

WhileMacro_apply(node) == Macro_apply(WhileMacro_from_pattern, WhileMacro_to_template, node)

(***************************************************************************)
(* The pattern-matching engine of src/macro_transform.py.  Its node classes *)
(* share names with the interpreter's; they carry the prefix MT_ here.  The *)
(* attribute `type` of a BaseNode is the field tag.                         *)
(***************************************************************************)
\* `x or []` in the constructors
OrEmptyList(x) == IF Truthy(x) THEN x ELSE PyList(<<>>)

MT_IfNode(condition, body, else_body) ==
    [type |-> "MT_IfNode", tag |-> "if", condition |-> condition,
     body |-> OrEmptyList(body), else_body |-> OrEmptyList(else_body)]
MT_BinaryOpNode(left, op, right) ==
    [type |-> "MT_BinaryOpNode", tag |-> "binary_op", left |-> left, op |-> op, right |-> right]
MT_ForNode(variable, iterable, body) ==
    [type |-> "MT_ForNode", tag |-> "for", variable |-> variable, iterable |-> iterable,
     body |-> OrEmptyList(body)]
MT_AssignNode(variable, value) ==
    [type |-> "MT_AssignNode", tag |-> "assign", variable |-> variable, value |-> value]
MT_CallNode(function, args) ==
    [type |-> "MT_CallNode", tag |-> "call", function |-> function, args |-> OrEmptyList(args)]
MT_UnaryOpNode(op, operand) ==
    [type |-> "MT_UnaryOpNode", tag |-> "unary_op", op |-> op, operand |-> operand]

MT_NodeTypes == {"MT_IfNode", "MT_BinaryOpNode", "MT_ForNode", "MT_AssignNode",
                 "MT_CallNode", "MT_UnaryOpNode"}
\* isinstance(v, BaseNode)
IsBaseNode(v) == v.type \in MT_NodeTypes

\* the attributes of template.__dict__ other than "type", in insertion order
MT_NodeAttrs(type) ==
    CASE type = "MT_IfNode" -> <<"condition", "body", "else_body">>
      [] type = "MT_BinaryOpNode" -> <<"left", "op", "right">>
      [] type = "MT_ForNode" -> <<"variable", "iterable", "body">>
      [] type = "MT_AssignNode" -> <<"variable", "value">>
      [] type = "MT_CallNode" -> <<"function", "args">>
      [] type = "MT_UnaryOpNode" -> <<"op", "operand">>

\* template.__class__(**new_attrs): the constructor applied to keyword values
MT_MakeNode(type, a) ==
    CASE type = "MT_IfNode" -> MT_IfNode(a.condition, a.body, a.else_body)
      [] type = "MT_BinaryOpNode" -> MT_BinaryOpNode(a.left, a.op, a.right)
      [] type = "MT_ForNode" -> MT_ForNode(a.variable, a.iterable, a.body)
      [] type = "MT_AssignNode" -> MT_AssignNode(a.variable, a.value)
      [] type = "MT_CallNode" -> MT_CallNode(a.function, a.args)
      [] type = "MT_UnaryOpNode" -> MT_UnaryOpNode(a.op, a.operand)

\* result.update(other): the bindings of other override those of result
DictUpdate(result, other) ==
    [k \in (DOMAIN result) \cup (DOMAIN other) |->
        IF k \in DOMAIN other THEN other[k] ELSE result[k]]

\* the `is None` tests on the partial matches of a node's match method, followed
\* by the merge {**a, **b, ...}
MergeMatches(ms) ==
    LET RECURSIVE Merge(_, _)
        Merge(i, acc) == IF i > Len(ms) THEN acc ELSE Merge(i + 1, DictUpdate(acc, ms[i].b))
    IN IF \E i \in 1..Len(ms) : ~ms[i].ok THEN NoMatch
       ELSE [ok |-> TRUE, b |-> Merge(1, <<>>)]

RECURSIVE BaseNode_match(_, _)
RECURSIVE match_pattern(_, _)
RECURSIVE match_list_pattern(_, _)

\* match_pattern (151-159)
match_pattern(pattern, value) ==
    IF StartsWithDollar(pattern) THEN [ok |-> TRUE, b |-> [k \in {pattern.s} |-> value]]
    ELSE IF IsBaseNode(pattern) THEN BaseNode_match(pattern, value)
    ELSE IF ~PyNe(pattern, value) THEN [ok |-> TRUE, b |-> <<>>]
    ELSE NoMatch

\* match_list_pattern without the case for the one-placeholder list: the list
\* patterns are matched element by element
match_list_pattern_pairwise(pattern_list, value_list) ==
    IF pattern_list.type = "NoneType" /\ value_list.type = "NoneType"
    THEN [ok |-> TRUE, b |-> <<>>]
    ELSE IF pattern_list.type # "list" \/ value_list.type # "list" THEN NoMatch
    ELSE IF Len(pattern_list.items) # Len(value_list.items) THEN NoMatch
    ELSE LET RECURSIVE Pairs(_, _)
             Pairs(i, result) ==
                 IF i > Len(pattern_list.items) THEN [ok |-> TRUE, b |-> result]
                 ELSE LET m == match_pattern(pattern_list.items[i], value_list.items[i])
                      IN IF ~m.ok THEN NoMatch ELSE Pairs(i + 1, DictUpdate(result, m.b))
         IN Pairs(1, <<>>)

\* match_list_pattern (162-184)
match_list_pattern(pattern_list, value_list) ==
    IF pattern_list.type = "NoneType" /\ value_list.type = "NoneType"
    THEN [ok |-> TRUE, b |-> <<>>]
    ELSE IF pattern_list.type # "list" \/ value_list.type # "list" THEN NoMatch
    ELSE IF Len(pattern_list.items) = 1 /\ StartsWithDollar(pattern_list.items[1])
    THEN [ok |-> TRUE, b |-> [k \in {pattern_list.items[1].s} |-> value_list]]
    ELSE IF Len(pattern_list.items) # Len(value_list.items) THEN NoMatch
    ELSE LET RECURSIVE Pairs(_, _)
             Pairs(i, result) ==
                 IF i > Len(pattern_list.items) THEN [ok |-> TRUE, b |-> result]
                 ELSE LET m == match_pattern(pattern_list.items[i], value_list.items[i])
                      IN IF ~m.ok THEN NoMatch ELSE Pairs(i + 1, DictUpdate(result, m.b))
         IN Pairs(1, <<>>)

\* the match methods of BaseNode and of its subclasses: super().match first
\* (other is a BaseNode of the same type), then the children
BaseNode_match(self, other) ==
    IF ~(IsBaseNode(other) /\ self.tag = other.tag) THEN NoMatch
    ELSE CASE self.type = "MT_IfNode" ->
                MergeMatches(<<match_pattern(self.condition, other.condition),
                               match_list_pattern(self.body, other.body),
                               match_list_pattern(self.else_body, other.else_body)>>)
           [] self.type = "MT_BinaryOpNode" ->
                IF PyNe(self.op, other.op) THEN NoMatch
                ELSE MergeMatches(<<match_pattern(self.left, other.left),
                                    match_pattern(self.right, other.right)>>)
           [] self.type = "MT_ForNode" ->
                MergeMatches(<<match_pattern(self.variable, other.variable),
                               match_pattern(self.iterable, other.iterable),
                               match_list_pattern(self.body, other.body)>>)
           [] self.type = "MT_AssignNode" ->
                MergeMatches(<<match_pattern(self.variable, other.variable),
                               match_pattern(self.value, other.value)>>)
           [] self.type = "MT_CallNode" ->
                MergeMatches(<<match_pattern(self.function, other.function),
                               match_list_pattern(self.args, other.args)>>)
           [] self.type = "MT_UnaryOpNode" ->
                MergeMatches(<<match_pattern(self.op, other.op),
                               match_pattern(self.operand, other.operand)>>)

\* MacroRule.instantiate_template without the case for the one-placeholder
\* list: every list of the template is instantiated element by element
RECURSIVE MacroRule_instantiate_template_elementwise(_, _)
MacroRule_instantiate_template_elementwise(template, matched_values) ==
    IF StartsWithDollar(template)
    THEN IF template.s \in DOMAIN matched_values THEN matched_values[template.s] ELSE template
    ELSE IF IsBaseNode(template)
    THEN LET attrs == MT_NodeAttrs(template.type)
         IN MT_MakeNode(template.type,
                [a \in {attrs[i] : i \in 1..Len(attrs)} |->
                    MacroRule_instantiate_template_elementwise(template[a], matched_values)])
    ELSE IF template.type = "list"
    THEN PyList([i \in 1..Len(template.items) |->
                    MacroRule_instantiate_template_elementwise(template.items[i], matched_values)])
    ELSE template

RECURSIVE MacroRule_instantiate_template(_, _)
MacroRule_instantiate_template(template, matched_values) ==
    IF StartsWithDollar(template)
    THEN IF template.s \in DOMAIN matched_values THEN matched_values[template.s] ELSE template
    ELSE IF IsBaseNode(template)
    THEN LET attrs == MT_NodeAttrs(template.type)
         IN MT_MakeNode(template.type,
                [a \in {attrs[i] : i \in 1..Len(attrs)} |->
                    MacroRule_instantiate_template(template[a], matched_values)])
    ELSE IF template.type = "list"
    THEN IF Len(template.items) = 1 /\ StartsWithDollar(template.items[1])
         THEN IF template.items[1].s \in DOMAIN matched_values
              THEN matched_values[template.items[1].s]
              ELSE template
         ELSE PyList([i \in 1..Len(template.items) |->
                         MacroRule_instantiate_template(template.items[i], matched_values)])
    ELSE template

\* MacroRule.apply (212-219): None when the pattern does not match
MacroRule_apply(pattern, template, node) ==
    LET matched_values == BaseNode_match(pattern, node)
    IN IF ~matched_values.ok THEN None
       ELSE MacroRule_instantiate_template(template, matched_values.b)

(***************************************************************************)
(* Driver scripts: the sequences of Interpreter.exec calls the model runs,  *)
(* in the style of the examples section (interpreter.py 261-277).           *)
(***************************************************************************)
Lit(n) == LiteralNode(PyInt(n))
Var(s) == VarNode(PyStr(s))
Assign(s, e) == AssignNode(PyStr(s), e)
BinOp(op, l, r) == BinaryOpNode(PyStr(op), l, r)
Call(f, args) == FunctionCallNode(f, PyList(args))
Block(stmts) == BlockNode(PyList(stmts))
Def(s, params, body) ==
    FunctionNode(PyStr(s), PyList([i \in 1..Len(params) |-> PyStr(params[i])]), body)

Script(kind, a, b, progs) == [kind |-> kind, a |-> a, b |-> b, progs |-> progs]

\* def f(): 7, then y = f()
CallValueScript ==
    Script("callvalue", 0, 0, <<Def("f", <<>>, Lit(7)), Assign("y", Call(Var("f"), <<>>))>>)

\* x = 0; def f(): x = 1; then the block { f(); y = x }
CallBlockScript ==
    Script("callblock", 0, 0,
           <<Assign("x", Lit(0)), Def("f", <<>>, Assign("x", Lit(1))),
             Block(<<Call(Var("f"), <<>>), Assign("y", Var("x"))>>)>>)

\* { if a: y = 1 [else: w = 3]; z = 2 } for a in {0, 1}, with (b = 1) or without else
IfScripts ==
    { Script("if", a, b,
             <<Block(<<IfNode(Lit(a), Assign("y", Lit(1)),
                              IF b = 1 THEN Assign("w", Lit(3)) ELSE None),
                       Assign("z", Lit(2))>>)>>) : a \in {0, 1}, b \in {0, 1} }

\* a block of a statements x = 1; x = 2; ...
BlockScripts ==
    { Script("block", a, 0, <<Block([i \in 1..a |-> Assign("x", Lit(i))])>>) : a \in 0..MaxN }

\* def f(n): if n > 0: f(n - 1), then f(a)
Countdown ==
    Def("f", <<"n">>,
        IfNode(BinOp(">", Var("n"), Lit(0)),
               Call(Var("f"), <<BinOp("-", Var("n"), Lit(1))>>),
               None))

CountdownScripts ==
    { Script("countdown", a, 0, <<Countdown, Call(Var("f"), <<Lit(a)>>)>>) : a \in 0..MaxN }

\* x = a, then WhileMacro().apply(if x < b: x = x + 1)   (lines 264-275)
WhileLoop(b) ==
    IfNode(BinOp("<", Var("x"), Lit(b)),
           Assign("x", BinOp("+", Var("x"), Lit(1))),
           None)

WhileScripts ==
    { Script("while", a, b, <<Assign("x", Lit(a)), WhileMacro_apply(WhileLoop(b))>>) :
        a \in (0 - 1)..MaxN, b \in (0 - 1)..MaxN }

\* loop = 0; y = 7; x = 0, then the expansion of while x < b: x = x + 1
\* evaluated in the global environment (a = 0) or as the body of a function f
\* that is called, i.e. in the Environment of f's activation (a = 1)
WhileFrameScripts ==
    { Script("whileframe", a, b,
             <<Assign("loop", Lit(0)), Assign("y", Lit(7)), Assign("x", Lit(0))>> \o
             (IF a = 0 THEN <<WhileMacro_apply(WhileLoop(b))>>
              ELSE <<Def("f", <<>>, WhileMacro_apply(WhileLoop(b))), Call(Var("f"), <<>>)>>)) :
        a \in {0, 1}, b \in 0..MaxN }

\* assignments in three nested scopes: the global scope, an activation of f and
\* an activation of h, which is defined inside f
ScopesScript ==
    Script("scopes", 0, 0,
           <<Assign("x", Lit(0)),
             Def("f", <<"p">>,
                 Block(<<Assign("p", Lit(5)), Assign("x", Lit(7)), Assign("z", Lit(9)),
                         Def("h", <<"q">>,
                             Block(<<Assign("q", Lit(1)), Assign("p", Lit(2)),
                                     Assign("x", Lit(3)), Assign("w", Lit(4))>>)),
                         Call(Var("h"), <<Lit(0)>>)>>)),
             Call(Var("f"), <<Lit(1)>>)>>)

\* p = 1 % (q = 2), with an operator that is not supported; with a = 1 the
\* operation is the value of the assignment r = ...
UnknownOp == BinOp("%", Assign("p", Lit(1)), Assign("q", Lit(2)))

UnknownOpScripts ==
    { Script("unknownop", a, 0, <<IF a = 0 THEN UnknownOp ELSE Assign("r", UnknownOp)>>) :
        a \in {0, 1} }

\* x = 1, then a node that reads the name u, which no scope binds
UnboundNodes ==
    <<Var("u"),
      Call(Var("u"), <<Assign("y", Lit(2))>>),
      Assign("y", Var("u")),
      Block(<<Assign("z", Lit(3)), BinOp("+", Var("x"), Var("u"))>>)>>

UnboundScripts ==
    { Script("unbound", a, 0, <<Assign("x", Lit(1)), UnboundNodes[a]>>) :
        a \in DOMAIN UnboundNodes }

\* x = 0; y = 0; { x = x + 1; ...(a times); e(y = y + 1, ...(b times)) } where
\* e is the literal 5 (kind "notcallable") or the variable x (kind "notcallablevar")
Incr(s) == Assign(s, BinOp("+", Var(s), Lit(1)))

NotCallableScript(kind, e, a, b) ==
    Script(kind, a, b,
           <<Assign("x", Lit(0)), Assign("y", Lit(0)),
             Block([i \in 1..a |-> Incr("x")] \o <<Call(e, [j \in 1..b |-> Incr("y")])>>)>>)

NotCallableScripts ==
    { NotCallableScript("notcallable", Lit(5), a, b) : a \in 0..MaxN, b \in 0..MaxN }
        \cup { NotCallableScript("notcallablevar", Var("x"), a, b) : a \in 0..MaxN, b \in 0..MaxN }

\* expressions whose operands have side effects, after x = 1:
\*   r = (x = 5) - x * 2          r = x - (x = 9)
\*   def g(a, b, c): (a - b) - c, then g(x = 2, x * 10, x = x + 1)
\*   def g(p): p, then (h = g)(h == g)
OrderProgs ==
    <<  <<Assign("r", BinOp("-", Assign("x", Lit(5)), BinOp("*", Var("x"), Lit(2))))>>,
        <<Assign("r", BinOp("-", Var("x"), Assign("x", Lit(9))))>>,
        <<Def("g", <<"a", "b", "c">>, BinOp("-", BinOp("-", Var("a"), Var("b")), Var("c"))),
          Call(Var("g"), <<Assign("x", Lit(2)), BinOp("*", Var("x"), Lit(10)), Incr("x")>>)>>,
        <<Def("g", <<"p">>, Var("p")),
          Call(Assign("h", Var("g")), <<BinOp("==", Var("h"), Var("g"))>>)>>  >>

OrderScripts ==
    { Script("order", a, 0, <<Assign("x", Lit(1))>> \o OrderProgs[a]) : a \in DOMAIN OrderProgs }

\* x = 1; def g(): x; def f(x): g(); f(5): the free variable x of g is the
\* global x, not the parameter x of the caller f
ClosureScript ==
    Script("closure", 0, 0,
           <<Assign("x", Lit(1)), Def("g", <<>>, Var("x")),
             Def("f", <<"x">>, Call(Var("g"), <<>>)),
             Call(Var("f"), <<Lit(5)>>)>>)

Scripts ==
    {CallValueScript, CallBlockScript, ScopesScript, ClosureScript}
        \cup IfScripts \cup BlockScripts \cup CountdownScripts \cup WhileScripts
        \cup UnknownOpScripts \cup UnboundScripts \cup NotCallableScripts \cup OrderScripts
        \cup WhileFrameScripts

\* the script of a driver that calls the Environment methods directly
EnvScript == Script("env", 0, 0, <<>>)

\* Environment chains the driver can have built: a chain of three scopes or a
\* scope with two children; y is bound in the root, x in any subset of scopes
EnvNames == {"x", "y"}
SetValues == {PyInt(1)}
UpdateValues == {PyInt(2)}
EnvParents == {<<0, 1, 2>>, <<0, 1, 1>>}
EnvHeaps ==
    { [i \in 1..3 |->
         [vars |-> [n \in (IF i \in X THEN {"x"} ELSE {}) \cup (IF i = 1 THEN {"y"} ELSE {})
                       |-> PyInt(0)],
          parent |-> ps[i]]] : ps \in EnvParents, X \in SUBSET (1..3) }

\* the script of a driver that applies macro rules to nodes (interpreter.py
\* 261-275, macro_transform.py 242-257)
MacroScript == Script("macro", 0, 0, <<>>)

\* rules of the interpreter's Macro class, as <<from_pattern, to_template>>
MacroRules ==
    <<  <<WhileMacro_from_pattern, WhileMacro_to_template>>,
        <<BinaryOpNode(PyStr("$op"), PyStr("$left"), PyStr("$right")),
          BinaryOpNode(PyStr("$op"), PyStr("$right"), PyStr("$left"))>>,
        <<IfNode(BinaryOpNode(PyStr("<"), PyStr("$left"), PyStr("$right")), PyStr("$body"), None),
          IfNode(BinaryOpNode(PyStr(">"), PyStr("$right"), PyStr("$left")), PyStr("$body"), None)>>,
        <<AssignNode(PyStr("x"), PyStr("$value")),
          BlockNode(PyList(<<AssignNode(PyStr("y"), PyStr("$value")), PyStr("$value")>>))>>  >>

MacroNodes ==
    <<  WhileLoop(2),
        IfNode(Lit(1), Assign("x", Lit(1)), Assign("w", Lit(3))),
        BinOp("+", Var("x"), Lit(1)),
        BinOp("%", Lit(0), Lit(1)),
        Assign("x", Lit(1)),
        Assign("y", Lit(2)),
        Lit(3),
        None  >>

StrList(ss) == PyList([i \in 1..Len(ss) |-> PyStr(ss[i])])

\* rules of MacroRule, as <<pattern, template>>; the first is unless_macro
MacroRuleRules ==
    <<  <<MT_IfNode(PyStr("$cond"), StrList(<<"$body">>), None),
          MT_IfNode(MT_UnaryOpNode(PyStr("not"), PyStr("$cond")), StrList(<<"$body">>), None)>>,
        <<MT_BinaryOpNode(PyStr("$left"), PyStr("+"), PyStr("$right")),
          MT_BinaryOpNode(PyStr("$right"), PyStr("+"), PyStr("$left"))>>,
        <<MT_BinaryOpNode(PyStr("$left"), PyStr("$op"), PyStr("$right")),
          MT_BinaryOpNode(PyStr("$right"), PyStr("$op"), PyStr("$left"))>>,
        <<MT_IfNode(MT_BinaryOpNode(PyStr("$left"), PyStr(">"), PyStr("$right")),
                    StrList(<<"$body">>), None),
          MT_IfNode(MT_BinaryOpNode(PyStr("$right"), PyStr("<"), PyStr("$left")),
                    StrList(<<"$body">>), None)>>,
        <<MT_AssignNode(PyStr("$var"), PyStr("$value")),
          MT_IfNode(PyStr("$var"), PyStr("$value"), None)>>,
        <<MT_UnaryOpNode(PyStr("$op"), PyStr("$value")),
          MT_CallNode(PyStr("$op"), StrList(<<"$value">>))>>,
        <<MT_CallNode(PyStr("print"), StrList(<<"$value", "sep">>)),
          MT_CallNode(PyStr("log"), StrList(<<"$value", "sep", "end">>))>>  >>

\* a body of n statements
Stmts(n) == PyList([i \in 1..n |-> IF i = 1 THEN PyStr("s") ELSE PyStr("t")])

MacroRuleNodes ==
    [n \in 1..(MaxLen + 1) |-> MT_IfNode(PyStr("c"), Stmts(n - 1), None)] \o
    <<  MT_IfNode(PyStr("c"), Stmts(1), Stmts(2)),
        MT_IfNode(None, None, None),
        MT_IfNode(MT_BinaryOpNode(PyStr("a"), PyStr(">"), PyStr("b")), Stmts(1), None),
        MT_IfNode(MT_BinaryOpNode(PyStr("a"), PyStr("<"), PyStr("b")), Stmts(1), None),
        MT_IfNode(MT_BinaryOpNode(PyStr("a"), PyStr(">"), PyStr("b")), Stmts(1), Stmts(1)),
        MT_BinaryOpNode(PyStr("a"), PyStr("+"), PyStr("b")),
        MT_BinaryOpNode(PyStr("a"), PyStr("-"), PyStr("b")),
        MT_AssignNode(PyStr("x"), PyStr("42")),
        MT_AssignNode(PyStr("x"), PyInt(0)),
        MT_AssignNode(PyStr("x"), None),
        MT_UnaryOpNode(PyStr("not"), PyStr("c")),
        MT_CallNode(PyStr("print"), StrList(<<"v", "sep">>)),
        MT_CallNode(PyStr("print"), StrList(<<"v">>)),
        MT_ForNode(PyStr("i"), PyStr("r"), Stmts(1)),
        None  >>

\* patterns in which every placeholder name occurs at most once: those of the
\* rules above and patterns with literal leaves, nested nodes and list captures
OncePatterns ==
    [r \in DOMAIN MacroRuleRules |-> MacroRuleRules[r][1]] \o
    <<  MT_IfNode(PyStr("$cond"), StrList(<<"$body">>), StrList(<<"$value">>)),
        MT_IfNode(MT_BinaryOpNode(PyStr("$left"), PyStr(">"), PyStr("$right")),
                  StrList(<<"s", "$value">>), None),
        MT_ForNode(PyStr("$var"), PyStr("$value"), StrList(<<"$body">>)),
        MT_CallNode(PyStr("$op"), StrList(<<"$xs">>)),
        MT_AssignNode(PyStr("x"), PyInt(1)),
        MT_AssignNode(PyStr("x"), PyStr("$value"))  >>

OnceNodes ==
    MacroRuleNodes \o
    <<  MT_BinaryOpNode(PyStr("a"), PyStr("$op"), PyStr("b")),
        MT_IfNode(MT_BinaryOpNode(PyStr("a"), PyStr(">"), PyStr("b")), Stmts(2), None),
        MT_AssignNode(PyStr("x"), PyInt(1)),
        MT_AssignNode(PyStr("x"), PyBool(TRUE)),
        MT_CallNode(PyStr("print"), None)  >>

\* the value lists given to match_list_pattern: every list of at most MaxLen
\* strings, among them strings that start with "$"
ValueLists ==
    { PyList([i \in DOMAIN f |-> PyStr(f[i])]) :
        f \in UNION {[1..m -> {"a", "$value"}] : m \in 0..MaxLen} }

(***************************************************************************)
(* State.                                                                   *)
(***************************************************************************)
VARIABLES
    scn,      \* the driver script being run
    todo,     \* the exec calls the driver has still to make
    envs,     \* the heap of Environment objects; envs[1] is interpreter.global_env
    pc,       \* "idle": between exec calls, "run": inside trampoline, "error": raised
    thunk,    \* the variable `thunk` of trampoline
    result,   \* the value returned by the last exec
    err,      \* the exception that ended the run, or "none"
    nfun,     \* FunctionValue objects created
    nblk,     \* Block evaluations started
    trace,    \* the events observed so far
    steps,    \* iterations of the trampoline loop in the current exec
    depth,    \* deepest nesting of thunk/continuation calls in any iteration so far
    last,     \* the last direct Environment method call and its outcome
    nops,     \* direct Environment method calls made
    mres      \* the last application of a macro engine and its outcome

vars == <<scn, todo, envs, pc, thunk, result, err, nfun, nblk, trace, steps, depth, last, nops,
          mres>>

NoOp == [op |-> "none", env |-> 0, name |-> "", value |-> None, ok |-> TRUE, ret |-> None]
NoMacro == [engine |-> "none"]

Init ==
    /\ \/ scn \in Scripts \cup {MacroScript} /\ envs = <<NewEnvironment(0)>>
       \/ scn = EnvScript /\ envs \in EnvHeaps
    /\ todo = scn.progs
    /\ pc = "idle"
    /\ thunk = None
    /\ result = None
    /\ err = "none"
    /\ nfun = 0
    /\ nblk = 0
    /\ trace = <<>>
    /\ steps = 0
    /\ depth = 0
    /\ last = NoOp
    /\ nops = 0
    /\ mres = NoMacro

\* the effects of one evaluation r = [v, c] on the state
Effects(r) ==
    /\ envs' = r.c.envs
    /\ nfun' = r.c.nfun
    /\ nblk' = r.c.nblk
    /\ trace' = trace \o r.c.ev
    /\ err' = r.c.err
    /\ IF r.c.err # "none"
       THEN pc' = "error" /\ thunk' = None
       ELSE pc' = "run" /\ thunk' = r.v

\* Interpreter.exec up to the call of trampoline: self.execute(lambda v: v, node, env)
Exec ==
    /\ pc = "idle"
    /\ todo # <<>>
    /\ LET r == Execute(<<[k |-> 115, owner |-> 0]>>, Head(todo), 1, Ctx(envs, nfun, nblk))
       IN Effects(r)
    /\ todo' = Tail(todo)
    /\ steps' = 0
    /\ UNCHANGED <<scn, result, depth, last, nops, mres>>

\* one iteration of the loop of trampoline: thunk = thunk()
Step ==
    /\ pc = "run"
    /\ callable(thunk)
    /\ LET r == Invoke(thunk, Ctx(envs, nfun, nblk))
       IN /\ Effects(r)
          /\ depth' = IF r.c.depth > depth THEN r.c.depth ELSE depth
    /\ steps' = steps + 1
    /\ UNCHANGED <<scn, todo, result, last, nops, mres>>

\* trampoline leaves its loop and exec returns the value
Return ==
    /\ pc = "run"
    /\ ~callable(thunk)
    /\ result' = thunk
    /\ pc' = "idle"
    /\ thunk' = None
    /\ UNCHANGED <<scn, todo, envs, err, nfun, nblk, trace, steps, depth, last, nops, mres>>

(***************************************************************************)
(* Direct calls of the Environment methods by the driver.                   *)
(***************************************************************************)
EnvCall(op) ==
    /\ scn.kind = "env"
    /\ nops < MaxOps
    /\ nops' = nops + 1
    /\ UNCHANGED <<scn, todo, pc, thunk, result, err, nfun, nblk, trace, steps, depth, mres>>

\* Environment(parent)
CallNew ==
    /\ EnvCall("new")
    /\ \E parent \in 1..Len(envs) :
          /\ envs' = Append(envs, NewEnvironment(parent))
          /\ last' = [op |-> "new", env |-> Len(envs) + 1, name |-> "", value |-> None,
                      ok |-> TRUE, ret |-> None]

\* env.get(name)
CallGet ==
    /\ EnvCall("get")
    /\ \E env \in 1..Len(envs), name \in EnvNames :
          LET g == Environment_get(envs, env, name)
          IN /\ envs' = envs
             /\ last' = [op |-> "get", env |-> env, name |-> name, value |-> None,
                         ok |-> g.ok, ret |-> g.v]

\* env.set(name, value)
CallSet ==
    /\ EnvCall("set")
    /\ \E env \in 1..Len(envs), name \in EnvNames, value \in SetValues :
          /\ envs' = Environment_set(envs, env, name, value)
          /\ last' = [op |-> "set", env |-> env, name |-> name, value |-> value,
                      ok |-> TRUE, ret |-> None]

\* env.update(name, value)
CallUpdate ==
    /\ EnvCall("update")
    /\ \E env \in 1..Len(envs), name \in EnvNames, value \in UpdateValues :
          LET u == Environment_update(envs, env, name, value)
          IN /\ envs' = u.envs
             /\ last' = [op |-> "update", env |-> env, name |-> name, value |-> value,
                         ok |-> u.ok, ret |-> None]

(***************************************************************************)
(* Applications of the macro engines by the driver.                         *)
(***************************************************************************)
MacroCall ==
    /\ scn.kind = "macro"
    /\ UNCHANGED <<scn, todo, envs, pc, thunk, result, err, nfun, nblk, trace, steps, depth,
                   last, nops>>

\* Macro(from_pattern, to_template).apply(node)
ApplyMacro ==
    /\ MacroCall
    /\ \E r \in DOMAIN MacroRules, n \in DOMAIN MacroNodes :
          LET from_pattern == MacroRules[r][1]
              to_template == MacroRules[r][2]
              node == MacroNodes[n]
          IN mres' = [engine |-> "Macro", pattern |-> from_pattern, template |-> to_template,
                      node |-> node, m |-> Macro_match(from_pattern, node),
                      out |-> Macro_apply(from_pattern, to_template, node)]

\* MacroRule(pattern, template).apply(node)
ApplyMacroRule ==
    /\ MacroCall
    /\ \E r \in DOMAIN MacroRuleRules, n \in DOMAIN MacroRuleNodes :
          LET pattern == MacroRuleRules[r][1]
              template == MacroRuleRules[r][2]
              node == MacroRuleNodes[n]
          IN mres' = [engine |-> "MacroRule", pattern |-> pattern, template |-> template,
                      node |-> node, m |-> BaseNode_match(pattern, node),
                      out |-> MacroRule_apply(pattern, template, node)]

\* match_list_pattern(["$xs"], value_list), then the template ["$xs"] instantiated
\* with the bindings obtained
MatchList ==
    /\ MacroCall
    /\ \E value_list \in ValueLists :
          LET pattern == StrList(<<"$xs">>)
              m == match_list_pattern(pattern, value_list)
          IN mres' = [engine |-> "list", pattern |-> pattern, template |-> pattern,
                      node |-> value_list, m |-> m,
                      out |-> IF m.ok THEN MacroRule_instantiate_template(pattern, m.b)
                              ELSE None]

\* pattern.match(node), then the pattern instantiated as its own template with
\* the bindings obtained
RoundTrip ==
    /\ MacroCall
    /\ \E p \in DOMAIN OncePatterns, n \in DOMAIN OnceNodes :
          LET pattern == OncePatterns[p]
              node == OnceNodes[n]
              m == BaseNode_match(pattern, node)
          IN mres' = [engine |-> "roundtrip", pattern |-> pattern, template |-> pattern,
                      node |-> node, m |-> m,
                      out |-> IF m.ok THEN MacroRule_instantiate_template(pattern, m.b)
                              ELSE None]

Next ==
    \/ Exec \/ Step \/ Return
    \/ CallNew \/ CallGet \/ CallSet \/ CallUpdate
    \/ ApplyMacro \/ ApplyMacroRule \/ MatchList \/ RoundTrip

Spec == Init /\ [][Next]_vars

\* The driver script and the loop of trampoline are sequential code: an exec
\* that can start starts, and the loop keeps calling thunks until exec returns.
LiveSpec == Spec /\ WF_vars(Exec) /\ WF_vars(Step) /\ WF_vars(Return)

\* the driver has made every exec of its script and the last one has returned
Finished == scn.kind # "env" /\ pc = "idle" /\ todo = <<>>

TypeOK ==
    /\ pc \in {"idle", "run", "error"}
    /\ Len(envs) >= 1
    /\ \A i \in 1..Len(envs) : envs[i].parent < i

(***************************************************************************)
(* Vocabulary of the properties.                                            *)
(***************************************************************************)
Events(kind) == {i \in DOMAIN trace : trace[i].e = kind}
Global(name) == envs[1].vars[name]
GlobalBinds(name) == name \in DOMAIN envs[1].vars

\* the activation whose Environment is a has finished evaluating its body by
\* event j: its continuation `lambda v: v` was called, or an If without a
\* branch to take ended the evaluation that was to call it
BodyFinished(a, j) ==
    \E m \in 1..j :
        \/ trace[m].e = "K" /\ trace[m].frame.k = 94 /\ trace[m].frame.owner = a
        \/ /\ trace[m].e = "if" /\ trace[m].branch = "none"
           /\ LET bottom == trace[m].K[Len(trace[m].K)]
              IN bottom.k = 94 /\ bottom.owner = a

(***************************************************************************)
(* C1: a Call of a FunctionValue passes to its continuation the ordinary    *)
(* value the body evaluates to, never a deferred computation; after         *)
(* def f(): 7 and y = f(), y is 7.                                          *)
(***************************************************************************)
C1_CallPassesBodyValue ==
    /\ \A i \in Events("call") :
          /\ i < Len(trace)
          /\ trace[i + 1].e = "K"
          /\ ~callable(trace[i + 1].v)
    /\ (Finished /\ scn.kind = "callvalue") => (GlobalBinds("y") /\ Global("y") = PyInt(7))

(***************************************************************************)
(* C2: in a Block [..., Call(f, args), s, ...] the body of f has been       *)
(* evaluated to completion, with all its Environment mutations, when the    *)
(* Call's continuation moves on to statement s; in                          *)
(* x = 0; def f(): x = 1; { f(); y = x } the block leaves y = 1.            *)
(***************************************************************************)
C2_BodyRunsBeforeNextStatement ==
    /\ \A j \in Events("K") :
          (/\ trace[j].frame.k = 204
           /\ trace[j].frame.rest # <<>>
           /\ j > 1
           /\ trace[j - 1].e = "call")
          => BodyFinished(trace[j - 1].env, j)
    /\ (Finished /\ scn.kind = "callblock") =>
          (GlobalBinds("y") /\ Global("y") = PyInt(1) /\ Global("x") = PyInt(1))

(***************************************************************************)
(* C3: an If whose condition is falsy and which has no else branch calls    *)
(* its continuation exactly once with the absent value; with a truthy       *)
(* condition the then branch, and with a falsy condition and an else branch *)
(* the else branch, is evaluated with that same continuation.               *)
(***************************************************************************)
C3_IfCallsContinuation ==
    \A i \in Events("if") :
        /\ trace[i].branch = "none" =>
              /\ Cardinality({j \in Events("K") : j = i + 1 /\ trace[j].frame = Head(trace[i].K)
                                                    /\ trace[j].v = None}) = 1
        /\ trace[i].branch = "then" => (trace[i].ret.src = 172 /\ trace[i].ret.K = trace[i].K)
        /\ trace[i].branch = "else" => (trace[i].ret.src = 174 /\ trace[i].ret.K = trace[i].K)

(***************************************************************************)
(* C4: a Block of n statements that raises no error evaluates its n         *)
(* statements exactly once each, in list order, each one after the previous *)
(* one passed its value on, and then calls the outer continuation exactly   *)
(* once with the value of the last statement (the absent value when n = 0), *)
(* whatever the kinds of the statements.                                    *)
(***************************************************************************)
StmtEvents(b) == {i \in Events("stmt") : trace[i].b = b}
BlockKEvents(b) == {i \in Events("blockK") : trace[i].b = b}
\* the calls of the continuation of a statement of Block evaluation b
StmtDone(b, idx) ==
    {i \in Events("K") : /\ trace[i].frame.k = 204
                         /\ trace[i].frame.b = b
                         /\ Len(trace[i].frame.rest) = b.n - idx}

BlockComplete(b) ==
    /\ \A idx \in 1..b.n :
          /\ Cardinality({i \in StmtEvents(b) : trace[i].idx = idx}) = 1
          /\ Cardinality(StmtDone(b, idx)) = 1
          /\ \A i \in StmtEvents(b), j \in StmtDone(b, idx) : trace[i].idx = idx => i < j
          /\ \A i \in StmtEvents(b), j \in StmtDone(b, idx) : trace[i].idx = idx + 1 => j < i
    /\ Cardinality(StmtEvents(b)) = b.n
    /\ Cardinality(BlockKEvents(b)) = 1
    /\ \A i \in BlockKEvents(b) :
          /\ b.n = 0 => trace[i].v = None
          /\ \A j \in StmtDone(b, b.n) : j < i /\ trace[i].v = trace[j].v

C4_BlockRunsEveryStatement ==
    Finished => \A i \in Events("block") : BlockComplete(trace[i].b)

(***************************************************************************)
(* C5: a chain of direct self-tail-calls runs in one activation: exactly    *)
(* one Environment is created for it, whatever the length of the chain.     *)
(* The countdown f(n) = if n > 0: f(n - 1) and the loop function of the     *)
(* while macro make only direct self-tail-calls.                            *)
(***************************************************************************)
C5_OneEnvironmentPerActivation ==
    scn.kind \in {"countdown", "while"} =>
        /\ Cardinality({trace[i].env : i \in Events("call")}) <= 1
        /\ Len(envs) <= 2

(***************************************************************************)
(* C6: for every N >= 0 the call f(N) of the countdown function             *)
(* f(n) = if n > 0: f(n - 1) terminates without an error, and in every      *)
(* iteration of the trampoline the nesting of pending thunk and             *)
(* continuation calls stays within one constant, whatever N is.             *)
(***************************************************************************)
C6_CountdownTerminatesInBoundedDepth ==
    /\ [](scn.kind = "countdown" => (pc # "error" /\ err = "none" /\ depth <= 4))
    /\ (scn.kind = "countdown") ~> (Finished /\ Len(envs) = scn.a + 2)

C6_Witness ==
    /\ Finished /\ scn.kind = "countdown" /\ scn.a = MaxN
    /\ Cardinality(Events("call")) = MaxN + 1
    /\ depth = 4

(***************************************************************************)
(* C7: from a global environment with x = x0, evaluating                    *)
(* WhileMacro().apply(If(x < N, x = x + 1)) terminates with                 *)
(* x = max(x0, N): the loop body runs exactly max(0, N - x0) times.         *)
(***************************************************************************)
Max(m, n) == IF m > n THEN m ELSE n
\* the assignments to x made so far; the first one is the script's x = x0
AssignmentsToX == {i \in Events("assign") : trace[i].name = "x"}

C7_WhileMacroCountsUp ==
    /\ [](scn.kind = "while" => (pc # "error" /\ err = "none"))
    /\ []((Finished /\ scn.kind = "while") =>
            /\ GlobalBinds("x")
            /\ Global("x") = PyInt(Max(scn.a, scn.b))
            /\ Cardinality(AssignmentsToX) = 1 + Max(0, scn.b - scn.a))
    /\ (scn.kind = "while") ~> Finished

C7_Witness ==
    /\ Finished /\ scn.kind = "while" /\ scn.a = 0 /\ scn.b = MaxN
    /\ Global("x") = PyInt(MaxN)
    /\ Cardinality(AssignmentsToX) = MaxN + 1

(***************************************************************************)
(* Vocabulary for the scope chain.                                          *)
(***************************************************************************)
\* the nearest scope on the chain of scope s that binds name; 0 if there is none
RECURSIVE Binder(_, _, _)
Binder(heap, s, name) ==
    IF s = 0 THEN 0
    ELSE IF name \in DOMAIN heap[s].vars THEN s
    ELSE Binder(heap, heap[s].parent, name)

\* heap h2 differs from heap h1 exactly in that scope s binds name to value
OnlyBindingChanged(h1, h2, s, name, value) ==
    /\ Len(h2) = Len(h1)
    /\ \A i \in 1..Len(h1) : h2[i].parent = h1[i].parent
    /\ \A i \in 1..Len(h1) : i # s => h2[i].vars = h1[i].vars
    /\ DOMAIN h2[s].vars = (DOMAIN h1[s].vars) \cup {name}
    /\ h2[s].vars[name] = value
    /\ \A n \in DOMAIN h1[s].vars : n # name => h2[s].vars[n] = h1[s].vars[n]

(***************************************************************************)
(* C8: Assign(name, expr) in scope S overwrites the binding of name in the  *)
(* nearest scope of S's chain that has one, creating no binding in S; when  *)
(* no scope of the chain binds name it defines name in S only; in both      *)
(* cases the outer continuation receives the assigned value.                *)
(***************************************************************************)
C8_AssignUpdatesNearestOrDefines ==
    \A i \in Events("assign") :
        LET ev == trace[i]
            b == Binder(ev.before, ev.env, ev.name)
        IN /\ b # 0 =>
                 /\ OnlyBindingChanged(ev.before, ev.after, b, ev.name, ev.value)
                 /\ b # ev.env => ev.name \notin DOMAIN ev.after[ev.env].vars
           /\ b = 0 => OnlyBindingChanged(ev.before, ev.after, ev.env, ev.name, ev.value)
           /\ i < Len(trace)
           /\ trace[i + 1].e = "K"
           /\ trace[i + 1].v = ev.value

C8_Witness ==
    /\ \E i \in Events("assign") :
          LET b == Binder(trace[i].before, trace[i].env, trace[i].name)
          IN b # 0 /\ b # trace[i].env /\ b # trace[i].before[trace[i].env].parent
    /\ \E i \in Events("assign") :
          /\ Binder(trace[i].before, trace[i].env, trace[i].name) = 0
          /\ trace[i].env # 1
          /\ trace[i].name \in DOMAIN envs[trace[i].env].vars

(***************************************************************************)
(* C9: update(name, v) on scope S overwrites name only in the nearest scope *)
(* of S's chain that binds it and changes nothing else, so a lookup of name *)
(* from every scope that reaches that scope without an intervening binding  *)
(* returns v, also from a scope created afterwards; when no scope of the    *)
(* chain binds name, update fails with the unbound-variable error and       *)
(* changes no scope.                                                        *)
(***************************************************************************)
UpdatePost ==
    LET s == last'.env
        name == last'.name
        v == last'.value
        b == Binder(envs, s, name)
    IN /\ b # 0 =>
             /\ last'.ok
             /\ OnlyBindingChanged(envs, envs', b, name, v)
             /\ \A t \in 1..Len(envs') :
                   Binder(envs', t, name) = b =>
                       Environment_get(envs', t, name) = [ok |-> TRUE, v |-> v]
       /\ b = 0 => (~last'.ok /\ envs' = envs)

\* a scope created later sees through its parent exactly what the parent sees
NewPost ==
    LET s == last'.env
    IN /\ s = Len(envs) + 1
       /\ Len(envs') = s
       /\ \A i \in 1..Len(envs) : envs'[i] = envs[i]
       /\ envs'[s].parent \in 1..Len(envs)
       /\ \A name \in EnvNames :
             Environment_get(envs', s, name) = Environment_get(envs, envs'[s].parent, name)

C9_UpdateOverwritesNearestBinding ==
    [][/\ (last'.op = "update" /\ nops' = nops + 1) => UpdatePost
       /\ (last'.op = "new" /\ nops' = nops + 1) => NewPost]_vars

C9_Witness ==
    /\ last.op = "update" /\ last.ok
    /\ LET p == envs[last.env].parent
       IN /\ p # 0
          /\ envs[p].parent # 0
          /\ last.name \notin DOMAIN envs[last.env].vars
          /\ last.name \notin DOMAIN envs[p].vars
          /\ Environment_get(envs, last.env, last.name) = [ok |-> TRUE, v |-> last.value]

(***************************************************************************)
(* C10: set(name, v) on scope S writes only S's own mapping, leaving every  *)
(* other scope (also one binding the same name) and every other name as it  *)
(* was; afterwards a lookup of name from S, or from a descendant of S that  *)
(* reaches S without rebinding name, returns v, and a lookup from any other *)
(* scope returns the previous value or fails as before.                     *)
(***************************************************************************)
SetPost ==
    LET s == last'.env
        name == last'.name
        v == last'.value
    IN /\ OnlyBindingChanged(envs, envs', s, name, v)
       /\ \A t \in 1..Len(envs') :
             IF Binder(envs', t, name) = s
             THEN Environment_get(envs', t, name) = [ok |-> TRUE, v |-> v]
             ELSE Environment_get(envs', t, name) = Environment_get(envs, t, name)

C10_SetWritesOwnScopeOnly ==
    [][(last'.op = "set" /\ nops' = nops + 1) => SetPost]_vars

C10_Witness ==
    /\ last.op = "set"
    /\ envs[last.env].parent # 0
    /\ LET g == Environment_get(envs, envs[last.env].parent, last.name)
       IN g.ok /\ g.v # last.value
    /\ \E t \in 1..Len(envs) :
          /\ envs[t].parent = last.env
          /\ Environment_get(envs, t, last.name) = [ok |-> TRUE, v |-> last.value]

(***************************************************************************)
(* C11: when the pattern of a macro rule does not match a node, apply       *)
(* returns that node itself, never an error or None, in both macro engines  *)
(* (Macro.apply and MacroRule.apply).                                       *)
(***************************************************************************)
C11_ApplyReturnsNodeOnMismatch ==
    (mres.engine \in {"Macro", "MacroRule"} /\ ~mres.m.ok) => mres.out = mres.node

ChildPositions(p) == IF IsBaseNode(p) THEN MT_NodeAttrs(p.type) ELSE NodeAttrs(p.type)
MacroApplied == mres.engine \in {"Macro", "MacroRule"}

(***************************************************************************)
(* C13: a placeholder in a child position of a pattern node, the operator   *)
(* position of a BinaryOp pattern included, matches whatever value the node *)
(* has in that position and is bound to that value: a pattern whose child   *)
(* positions are all placeholders matches every node of its variant and     *)
(* binds each placeholder to the child in its position.                     *)
(***************************************************************************)
C13_PlaceholderAlwaysBinds ==
    (/\ MacroApplied
     /\ mres.node.type = mres.pattern.type
     /\ \A i \in DOMAIN ChildPositions(mres.pattern) :
           StartsWithDollar(mres.pattern[ChildPositions(mres.pattern)[i]]))
    => /\ mres.m.ok
       /\ \A i \in DOMAIN ChildPositions(mres.pattern) :
             LET pos == ChildPositions(mres.pattern)[i]
                 name == mres.pattern[pos].s
             IN name \in DOMAIN mres.m.b /\ mres.m.b[name] = mres.node[pos]

\* the match relation of the claims: a placeholder matches every value, a
\* pattern node matches a node of its variant whose children match pairwise,
\* the list ["$x"] matches every list, another list matches a list of its
\* length element by element, and a leaf matches an equal leaf
RECURSIVE Matches(_, _)
Matches(p, v) ==
    IF StartsWithDollar(p) THEN TRUE
    ELSE IF IsNode(p) \/ IsBaseNode(p)
    THEN /\ v.type = p.type
         /\ \A i \in DOMAIN ChildPositions(p) :
               Matches(p[ChildPositions(p)[i]], v[ChildPositions(p)[i]])
    ELSE IF p.type = "list"
    THEN /\ v.type = "list"
         /\ \/ Len(p.items) = 1 /\ StartsWithDollar(p.items[1])
            \/ /\ Len(p.items) = Len(v.items)
               /\ \A i \in DOMAIN p.items : Matches(p.items[i], v.items[i])
    ELSE ~PyNe(p, v)

\* the bindings b hold, for every placeholder of pattern p, the part of the
\* matching value v that is in the placeholder's position
RECURSIVE BindsAll(_, _, _)
BindsAll(p, v, b) ==
    IF StartsWithDollar(p) THEN p.s \in DOMAIN b /\ b[p.s] = v
    ELSE IF IsNode(p) \/ IsBaseNode(p)
    THEN \A i \in DOMAIN ChildPositions(p) :
            BindsAll(p[ChildPositions(p)[i]], v[ChildPositions(p)[i]], b)
    ELSE IF p.type = "list"
    THEN IF Len(p.items) = 1 /\ StartsWithDollar(p.items[1])
         THEN p.items[1].s \in DOMAIN b /\ b[p.items[1].s] = v
         ELSE \A i \in DOMAIN p.items : BindsAll(p.items[i], v.items[i], b)
    ELSE TRUE

\* a child position of the pattern holds a pattern node
HasSubPattern(p) ==
    \E i \in DOMAIN ChildPositions(p) :
        IsNode(p[ChildPositions(p)[i]]) \/ IsBaseNode(p[ChildPositions(p)[i]])

(***************************************************************************)
(* C14: match recurses through the pattern nodes held in child positions:   *)
(* a pattern with a sub-pattern matches a node exactly when the node has    *)
(* the pattern's variant and its children match pairwise at every depth,    *)
(* the bindings then include those of the nested placeholders, and a        *)
(* mismatch at any depth gives no bindings; for Macro.match and for the     *)
(* match methods of macro_transform.py.                                     *)
(***************************************************************************)
C14_MatchRecursesIntoSubPatterns ==
    (MacroApplied /\ HasSubPattern(mres.pattern)) =>
        /\ mres.m.ok <=> Matches(mres.pattern, mres.node)
        /\ mres.m.ok => BindsAll(mres.pattern, mres.node, mres.m.b)
        /\ ~mres.m.ok => DOMAIN mres.m.b = {}

\* fragment out has the shape of template t under the bindings b: the variant
\* of t at every node position, the bound value at every bound placeholder,
\* a list of the same length for every list other than the one-placeholder
\* list (which is the bound value or holds it), and the leaf of t at every
\* other position
RECURSIVE Shaped(_, _, _)
Shaped(t, out, b) ==
    IF StartsWithDollar(t) THEN t.s \in DOMAIN b => out = b[t.s]
    ELSE IF IsNode(t) \/ IsBaseNode(t)
    THEN /\ out.type = t.type
         /\ \A i \in DOMAIN ChildPositions(t) :
               Shaped(t[ChildPositions(t)[i]], out[ChildPositions(t)[i]], b)
    ELSE IF t.type = "list"
    THEN IF Len(t.items) = 1 /\ StartsWithDollar(t.items[1])
         THEN t.items[1].s \in DOMAIN b =>
                 \/ out = b[t.items[1].s]
                 \/ out.type = "list" /\ Len(out.items) = 1 /\ out.items[1] = b[t.items[1].s]
         ELSE /\ out.type = "list"
              /\ Len(out.items) = Len(t.items)
              /\ \A i \in DOMAIN t.items : Shaped(t.items[i], out.items[i], b)
    ELSE out = t

(***************************************************************************)
(* C15: instantiate returns a fragment shaped like the template: the same   *)
(* node variant at every node position of the template, at every            *)
(* placeholder exactly the value bound to it, a list of the same length for *)
(* every list other than the one-placeholder list, and the template's leaf  *)
(* at every other position; for MacroRule.instantiate_template and for      *)
(* Macro.instantiate_template.                                              *)
(***************************************************************************)
C15_InstantiateKeepsShape ==
    (MacroApplied /\ mres.m.ok) => Shaped(mres.template, mres.out, mres.m.b)

(***************************************************************************)
(* C16: a BinaryOp whose operator is not one of + - * / < > == != fails     *)
(* once both operands have been evaluated, with an unknown-operator error   *)
(* of a kind other than that of the unbound-variable error (NameError), and *)
(* the error ends the exec call: no enclosing rule catches it.              *)
(***************************************************************************)
C16_UnknownOperatorError ==
    scn.kind = "unknownop" =>
        /\ ~Finished
        /\ pc = "error" =>
              /\ err \notin {"none", "NameError"}
              /\ GlobalBinds("p") /\ GlobalBinds("q")
              /\ ~GlobalBinds("r")

(***************************************************************************)
(* C17: evaluating Var(name), alone or in the function position of a Call,  *)
(* when no scope of the chain binds name ends the exec call with the        *)
(* unbound-variable error (NameError) and changes no scope: the step that   *)
(* raises the error leaves the heap of Environments as it was, no binding   *)
(* for name exists afterwards, and the names bound before still have their  *)
(* values (after x = 1 the global scope is exactly {x: 1}, with z: 3 when   *)
(* the block statement z = 3 came first).                                   *)
(***************************************************************************)
UnboundLookup ==
    /\ pc = "run"
    /\ callable(thunk)
    /\ thunk.src = 131
    /\ ~Environment_get(envs, thunk.env, thunk.node.name.s).ok

C17_UnboundVariableChangesNothing ==
    /\ [][UnboundLookup =>
            /\ pc' = "error"
            /\ err' = "NameError"
            /\ envs' = envs
            /\ ~Environment_get(envs', thunk.env, thunk.node.name.s).ok]_vars
    /\ [](scn.kind = "unbound" =>
            /\ ~Finished
            /\ pc = "error" =>
                  /\ err = "NameError"
                  /\ Len(envs) = 1
                  /\ DOMAIN envs[1].vars = IF scn.a = 4 THEN {"x", "z"} ELSE {"x"}
                  /\ Environment_get(envs, 1, "x") = [ok |-> TRUE, v |-> PyInt(1)])

C17_Witness ==
    /\ scn.kind = "unbound" /\ scn.a = 2
    /\ pc = "error" /\ err = "NameError"
    /\ Global("x") = PyInt(1)
    /\ ~GlobalBinds("u") /\ ~GlobalBinds("y")

(***************************************************************************)
(* C18: the block { s1; ...; sk; e(a1, ..., an) } in which e evaluates to a *)
(* value that is not a FunctionValue raises the not-callable error          *)
(* (TypeError) only when s1..sk and all of a1..an have been evaluated, each *)
(* once and in order, and the Environment then holds the effects of all of  *)
(* them.  In the scripts every si is x = x + 1 and every aj is y = y + 1,   *)
(* starting from x = 0 and y = 0, and e is the literal 5 or the variable x. *)
(***************************************************************************)
NotCallableKinds == {"notcallable", "notcallablevar"}

\* the values passed on by the arguments of a Call evaluated so far
ArgsDone == {i \in Events("K") : trace[i].frame.k = 192}

C18_NotCallableAfterArguments ==
    scn.kind \in NotCallableKinds =>
        /\ ~Finished
        /\ pc = "error" =>
              /\ err = "TypeError"
              /\ \A i \in Events("block") :
                    LET b == trace[i].b
                    IN /\ b.n = scn.a + 1
                       /\ Cardinality(StmtEvents(b)) = b.n
                       /\ \A idx \in 1..scn.a :
                             /\ Cardinality(StmtDone(b, idx)) = 1
                             /\ \A j \in StmtDone(b, idx) : trace[j].v = PyInt(idx)
              /\ Cardinality(ArgsDone) = scn.b
              /\ \A i \in ArgsDone : trace[i].v = PyInt(Len(trace[i].frame.acc) + 1)
              /\ Global("x") = PyInt(scn.a)
              /\ Global("y") = PyInt(scn.b)

C18_Witness ==
    /\ scn.kind = "notcallable" /\ scn.a = MaxN /\ scn.b = MaxN
    /\ pc = "error" /\ err = "TypeError"
    /\ Global("x") = PyInt(MaxN) /\ Global("y") = PyInt(MaxN)
    /\ Cardinality(ArgsDone) = MaxN

(***************************************************************************)
(* C19: sub-expressions are evaluated strictly left to right.  In a         *)
(* BinaryOp the right operand is evaluated after the left one has passed on *)
(* its value and made its Environment mutations, and the operator is        *)
(* applied to that captured value; in a Call the function expression is     *)
(* evaluated first, then the arguments once each in index order, and the    *)
(* callee's parameters are bound to the argument values in that order.      *)
(* After x = 1:  r = (x = 5) - x * 2 gives r = -5;  r = x - (x = 9) gives   *)
(* r = -8;  g(x = 2, x * 10, x = x + 1) with g(a, b, c) = (a - b) - c gives *)
(* -21;  (h = g)(h == g) with g(p) = p gives True.                          *)
(***************************************************************************)
\* the value passed on by argument j of the Call whose activation is event i
ArgDone(i, j) == {m \in ArgsDone : m < i /\ Len(trace[m].frame.acc) = j - 1}

CallInOrder(i) ==
    LET args == trace[i].args
        funcDone == {m \in Events("K") : trace[m].frame.k = 184}
    IN /\ Cardinality(funcDone) = 1
       /\ \A j \in DOMAIN args :
             /\ Cardinality(ArgDone(i, j)) = 1
             /\ \A m \in ArgDone(i, j) :
                   /\ trace[m].v = args[j]
                   /\ \A f \in funcDone : f < m
                   /\ j > 1 => \A l \in ArgDone(i, j - 1) : l < m
       /\ \A d \in Events("def") :
             trace[d].func.id = trace[i].func =>
                 LET params == trace[d].func.node.params.items
                 IN /\ Len(params) = Len(args)
                    /\ \A j \in DOMAIN args :
                          envs[trace[i].env].vars[params[j].s] = args[j]

\* the operator of a BinaryOp is applied to the value its left operand passed on
\* before the right operand was evaluated
OperandsInOrder(m) ==
    \E l \in Events("K") :
        /\ l < m
        /\ trace[l].frame.k = 165
        /\ trace[l].frame.node = trace[m].frame.node
        /\ trace[l].v = trace[m].frame.left

C19_LeftToRight ==
    scn.kind = "order" =>
        /\ pc # "error"
        /\ \A i \in Events("call") : CallInOrder(i)
        /\ \A m \in Events("K") : trace[m].frame.k = 166 => OperandsInOrder(m)
        /\ Finished =>
              CASE scn.a = 1 -> Global("r") = PyInt(0 - 5) /\ Global("x") = PyInt(5)
                [] scn.a = 2 -> Global("r") = PyInt(0 - 8) /\ Global("x") = PyInt(9)
                [] scn.a = 3 -> result = PyInt(0 - 21) /\ Global("x") = PyInt(3)
                [] scn.a = 4 -> result = PyBool(TRUE)

C19_Witness ==
    /\ scn.kind = "order" /\ scn.a = 3 /\ Finished
    /\ result = PyInt(0 - 21)
    /\ \E i \in Events("call") : Len(trace[i].args) = 3

(***************************************************************************)
(* C20: a FunctionDef evaluated in environment E binds its name in E to a   *)
(* new FunctionValue whose closure is E and passes that FunctionValue to    *)
(* its continuation; every call of the FunctionValue creates a new          *)
(* Environment whose parent is E, whatever environment the call is made     *)
(* from, so a free variable of the body is looked up through E's chain:     *)
(* after x = 1; def g(): x; def f(x): g() the call f(5) returns 1.          *)
(***************************************************************************)
DefBindsClosure(d) ==
    LET ev == trace[d]
    IN /\ ev.func.type = "FunctionValue"
       /\ ev.func.closure_env = ev.env
       /\ \A d2 \in Events("def") : d2 # d => trace[d2].func.id # ev.func.id
       /\ ev.name \in DOMAIN envs[ev.env].vars
       /\ envs[ev.env].vars[ev.name] = ev.func
       /\ d < Len(trace) => (trace[d + 1].e = "K" /\ trace[d + 1].v = ev.func)

CallRunsUnderClosure(c) ==
    /\ trace[c].env \in 2..Len(envs)
    /\ \A c2 \in Events("call") : c2 # c => trace[c2].env # trace[c].env
    /\ \A d \in Events("def") :
          trace[d].func.id = trace[c].func => envs[trace[c].env].parent = trace[d].env

C20_ClosureIsDefinitionEnvironment ==
    /\ \A d \in Events("def") : DefBindsClosure(d)
    /\ \A c \in Events("call") : CallRunsUnderClosure(c)
    /\ (Finished /\ scn.kind = "closure") => result = PyInt(1)

C20_Witness ==
    /\ scn.kind = "closure" /\ Finished
    /\ result = PyInt(1)
    /\ Len(envs) = 3
    /\ envs[2].vars["x"] = PyInt(5)
    /\ envs[3].parent = 1

\* a and b are structurally equal: the same variant with structurally equal
\* children, lists of the same length with structurally equal elements, or
\* leaves that are equal (==)
RECURSIVE StructEq(_, _)
StructEq(a, b) ==
    IF IsBaseNode(a)
    THEN /\ b.type = a.type
         /\ \A i \in DOMAIN MT_NodeAttrs(a.type) :
               StructEq(a[MT_NodeAttrs(a.type)[i]], b[MT_NodeAttrs(a.type)[i]])
    ELSE IF a.type = "list"
    THEN /\ b.type = "list"
         /\ Len(a.items) = Len(b.items)
         /\ \A i \in DOMAIN a.items : StructEq(a.items[i], b.items[i])
    ELSE ~PyNe(a, b)

(***************************************************************************)
(* C21: in the engine of macro_transform.py, for a pattern in which every   *)
(* placeholder name occurs at most once and a node that the pattern         *)
(* matches, the pattern instantiated as its own template with the bindings  *)
(* of the match is structurally equal to the node, for placeholders that    *)
(* capture one child and placeholders that capture a list alike.            *)
(***************************************************************************)
C21_PatternAsTemplateRoundTrip ==
    (mres.engine = "roundtrip" /\ mres.m.ok) => StructEq(mres.out, mres.node)

C21_Witness ==
    /\ mres.engine = "roundtrip" /\ mres.m.ok
    /\ mres.node.type = "MT_IfNode"
    /\ Len(mres.node.else_body.items) = 2
    /\ DOMAIN mres.m.b = {"$cond", "$body", "$value"}
    /\ mres.m.b["$value"] = mres.node.else_body
    /\ StructEq(mres.out, mres.node)


\* the scripts that evaluate a WhileMacro expansion as their last statement, and
\* the Environment E the expansion is evaluated in: the global one, or the
\* activation of f (the second Environment created)
WhileKinds == {"while", "whileframe"}
InExpansion == scn.kind \in WhileKinds /\ todo = <<>>
WhileEnv == IF scn.kind = "whileframe" /\ scn.a = 1 THEN 2 ELSE 1

\* v is the FunctionValue generated by the expansion in E
LoopFunction(v) ==
    /\ v.type = "FunctionValue"
    /\ v.node = WhileMacro_apply(WhileLoop(scn.b)).statements.items[1]
    /\ v.node.name = PyStr("loop") /\ v.node.params = PyList(<<>>)
    /\ v.closure_env = WhileEnv

\* the bindings of names other than x when the expansion starts: x is the
\* variable the loop body assigns
BoundBefore(i, n) ==
    /\ scn.kind = "whileframe" /\ i = 1
    /\ n \in {"loop", "y"} \cup (IF scn.a = 1 THEN {"f"} ELSE {})
ValueBefore(n) ==
    CASE n = "loop" -> PyInt(0)
      [] n = "y" -> PyInt(7)
      [] n = "f" -> FunctionValue(scn.progs[4], 1, 1)
SameValue(v, w) == v.type = w.type /\ v = w

\* C22: while and after the WhileMacro expansion is evaluated in E, every name
\* other than the variable the loop assigns is bound, in every scope, exactly
\* as before, except "loop" in E's own scope, which is bound to the generated
\* zero-argument FunctionValue once the expansion has run (replacing what that
\* scope held, leaving a "loop" of an enclosing scope alone)
C22_WhileBindsOnlyLoop ==
    InExpansion =>
        /\ \A i \in DOMAIN envs : \A n \in DOMAIN envs[i].vars \ {"x"} :
              \/ BoundBefore(i, n) /\ SameValue(envs[i].vars[n], ValueBefore(n))
              \/ i = WhileEnv /\ n = "loop" /\ LoopFunction(envs[i].vars[n])
        /\ \A n \in {"loop", "y", "f"} : BoundBefore(1, n) => GlobalBinds(n)
        /\ Finished =>
              /\ err = "none"
              /\ WhileEnv \in DOMAIN envs
              /\ "loop" \in DOMAIN envs[WhileEnv].vars
              /\ LoopFunction(envs[WhileEnv].vars["loop"])
C22_Witness ==
    /\ scn.kind = "whileframe" /\ scn.a = 1 /\ scn.b >= 2 /\ Finished
    /\ Global("x") = PyInt(scn.b)
    /\ Global("loop") = PyInt(0) /\ Global("y") = PyInt(7)
    /\ LoopFunction(envs[2].vars["loop"])
    /\ Len(envs) = scn.b + 3

====
